---------------------------- MODULE Spec2Model ----------------------------
(***************************************************************************)
(* A model of controlgym's Burgers environment, src/controlgym/envs/       *)
(* burgers.py: the constructor of BurgersEnv, the Fourier-space linear and *)
(* nonlinear operators, and the parameter export.                          *)
(*                                                                         *)
(* NUMBERS.  Two exact number representations are used.                    *)
(*                                                                         *)
(*  - Quantities that are compared by order (initial state, target state,  *)
(*    diffusivity, wavenumbers in the linear operator) are integers in a   *)
(*    fixed unit: state values in units of 1/Scale, wavenumbers in units   *)
(*    of 2*pi/domain_length, the diffusivity in units of its default.      *)
(*                                                                         *)
(*  - The spectral computations of the nonlinear operator need the roots   *)
(*    of unity exp(2*pi*i/m).  They are carried out in the prime field     *)
(*    GF(FieldOrder): FieldOrder - 1 = 2520 is a multiple of 4 and of      *)
(*    every grid size the model uses, so the field contains a primitive    *)
(*    2520th root of unity, and the map that sends exp(2*pi*i/2520) to it  *)
(*    is a ring homomorphism from Z[1/2520][exp(2*pi*i/2520)] to the       *)
(*    field.  A complex number x + i*y is the pair of the images of x and  *)
(*    y.  Every sum, product, quotient by a grid size and twiddle factor   *)
(*    of the code has its exact image, so two results that are equal as    *)
(*    complex numbers have equal images, and two results with different    *)
(*    images are different complex numbers.  (Floating-point rounding is   *)
(*    not modelled: the operators are the exact ones the code rounds.)     *)
(***************************************************************************)
EXTENDS Integers, Sequences, FiniteSets, TLC

VARIABLES
    obj,        \* obj[i]: the attributes of BurgersEnv instance i
    np_random,  \* the state of numpy's process-wide generator (np.random)
    out         \* what the last operation called on an instance returned

vars == <<obj, np_random, out>>

(***************************************************************************)
(* Bounds of the model.                                                    *)
(***************************************************************************)
MaxN == 6          \* n_state ranges over 1..MaxN
Scale == 16        \* state values are multiples of 1/Scale
CoordScale == 100  \* coordinates are multiples of 1/CoordScale

Instances == {1, 2}

(***************************************************************************)
(* Python's None, and an attribute that has not been assigned yet.         *)
(***************************************************************************)
None == <<>>

(***************************************************************************)
(* Arithmetic of GF(FieldOrder).                                           *)
(***************************************************************************)
FieldOrder == 2 * 2 * 2 * 3 * 3 * 5 * 7 + 1
RootOrder == FieldOrder - 1

F(x) == x % FieldOrder
FAdd(a, b) == (a + b) % FieldOrder
FSub(a, b) == (a - b) % FieldOrder
FMul(a, b) == (a * b) % FieldOrder

RECURSIVE FPow(_, _)
FPow(a, e) ==
    IF e = 0 THEN 1
    ELSE LET h == FPow(a, e \div 2)
         IN  IF e % 2 = 0 THEN FMul(h, h) ELSE FMul(FMul(h, h), a)

\* The inverses, tabulated: a^(FieldOrder - 2) is the inverse of a # 0.
Inverse == [a \in 1 .. FieldOrder - 1 |-> FPow(a, FieldOrder - 2)]
FInv(a) == Inverse[a]
FDiv(a, b) == FMul(a, FInv(b))

RECURSIVE FSum(_)
FSum(s) == IF s = <<>> THEN 0 ELSE FAdd(Head(s), FSum(Tail(s)))

\* The image of exp(2*pi*i*e/2520): 17 generates the field's unit group.
Root == [e \in 0 .. RootOrder - 1 |-> FPow(17, e)]
ImagUnit == Root[RootOrder \div 4]

\* cos(2*pi*e/2520) and sin(2*pi*e/2520), tabulated.
CosTable ==
    [e \in 0 .. RootOrder - 1 |->
        FDiv(FAdd(Root[e], Root[(RootOrder - e) % RootOrder]), 2)]
SinTable ==
    [e \in 0 .. RootOrder - 1 |->
        FDiv(FSub(Root[e], Root[(RootOrder - e) % RootOrder]), FMul(2, ImagUnit))]

\* cos(2*pi*t/m) and sin(2*pi*t/m)
Cos(t, m) == CosTable[((RootOrder \div m) * t) % RootOrder]
Sin(t, m) == SinTable[((RootOrder \div m) * t) % RootOrder]

(***************************************************************************)
(* Complex numbers: pairs (re, im) of field elements.                      *)
(***************************************************************************)
Cx(re, im) == [re |-> re, im |-> im]
CZero == Cx(0, 0)
CAdd(z, w) == Cx(FAdd(z.re, w.re), FAdd(z.im, w.im))
CSub(z, w) == Cx(FSub(z.re, w.re), FSub(z.im, w.im))
CMul(z, w) == Cx(FSub(FMul(z.re, w.re), FMul(z.im, w.im)),
                 FAdd(FMul(z.re, w.im), FMul(z.im, w.re)))
CScale(r, z) == Cx(FMul(r, z.re), FMul(r, z.im))

RECURSIVE CSum(_)
CSum(s) == IF s = <<>> THEN CZero ELSE CAdd(Head(s), CSum(Tail(s)))

(***************************************************************************)
(* numpy.fft.irfft(a, n = m): the real signal of length m whose half       *)
(* spectrum is a, zero-padded or cut to m \div 2 + 1 entries.  The         *)
(* imaginary part of entry 0 (and of the Nyquist entry, m even) is         *)
(* ignored; the result is divided by m.                                    *)
(***************************************************************************)
irfft(a, m) ==
    LET A(k) == IF k + 1 <= Len(a) THEN a[k + 1] ELSE CZero
        pair(k, j) ==
            FMul(2, FSub(FMul(A(k).re, Cos(k * j, m)),
                         FMul(A(k).im, Sin(k * j, m))))
        nyquist(j) ==
            IF m % 2 = 0
            THEN FMul(A(m \div 2).re, IF j % 2 = 0 THEN 1 ELSE F(-1))
            ELSE 0
    IN  [j \in 1 .. m |->
            FDiv(FAdd(FAdd(A(0).re,
                           FSum([k \in 1 .. (m - 1) \div 2 |-> pair(k, j - 1)])),
                      nyquist(j - 1)),
                 F(m))]

(***************************************************************************)
(* numpy.fft.rfft(x): entry k of the half spectrum of the real signal x    *)
(* is the sum over j of x[j] * exp(-2*pi*i*j*k/m), k = 0 .. m \div 2.      *)
(***************************************************************************)
rfft(x) ==
    LET m == Len(x)
    IN  [k \in 1 .. m \div 2 + 1 |->
            Cx(FSum([j \in 1 .. m |-> FMul(x[j], Cos((k - 1) * (j - 1), m))]),
               FSub(0, FSum([j \in 1 .. m |->
                                FMul(x[j], Sin((k - 1) * (j - 1), m))])))]

\* numpy.fft.rfft(M, axis=0): the half spectrum of every column of M.
rfft_axis0(M) ==
    LET cols == IF Len(M) = 0 THEN 0 ELSE Len(M[1])
        col(c) == [j \in 1 .. Len(M) |-> F(M[j][c])]
    IN  [k \in 1 .. Len(M) \div 2 + 1 |-> [c \in 1 .. cols |-> rfft(col(c))[k]]]

\* M @ v for a complex matrix M and a real vector v.
MatVec(M, v) ==
    [k \in 1 .. Len(M) |->
        CSum([c \in 1 .. Len(v) |-> CScale(F(v[c]), M[k][c])])]

\* Python's s[0:h]
Slice(s, h) == SubSeq(s, 1, IF h < Len(s) THEN h ELSE Len(s))

(***************************************************************************)
(* Integer vectors and matrices (sequences of rows).                       *)
(***************************************************************************)
RECURSIVE ISum(_)
ISum(s) == IF s = <<>> THEN 0 ELSE Head(s) + ISum(Tail(s))

\* M @ v for a real matrix M and a real vector v.
MatVecInt(M, v) ==
    [r \in 1 .. Len(M) |-> ISum([j \in 1 .. Len(v) |-> M[r][j] * v[j]])]

Zeros(n) == [j \in 1 .. n |-> 0]
Const(n, v) == [j \in 1 .. n |-> v]
Ramp(n) == [j \in 1 .. n |-> 2 * j - n]

(***************************************************************************)
(* numpy's process-wide generator.  The generator is a deterministic       *)
(* function of its state: a draw advances the state and returns a value    *)
(* in [0, 1), here the new state in units of 1/Scale.                      *)
(***************************************************************************)
RandomStates == 0 .. Scale - 1
Advance(x) == (5 * x + 3) % Scale

RECURSIVE AdvanceBy(_, _)
AdvanceBy(x, n) == IF n = 0 THEN x ELSE AdvanceBy(Advance(x), n - 1)

\* np.random.rand(n) drawn from state x: the n values, in units of 1/Scale.
rand(x, n) == [j \in 1 .. n |-> AdvanceBy(x, j)]

\* The state the generator is in after it was seeded with seed.
Seeded(seed) == (7 * seed + 1) % Scale

(***************************************************************************)
(* The base environment PDE, which is not part of burgers.py: the domain   *)
(* descriptor, the builders of the control support and of the observation  *)
(* matrix, and the base parameter dictionary.                              *)
(***************************************************************************)
\* n_state coordinates spanning [0, domain_length), in units of 1/CoordScale.
DomainCoordinates(n, L) == [j \in 1 .. n |-> ((j - 1) * L * CoordScale) \div n]

\* One wavenumber per retained mode, in units of 2*pi/domain_length.
DomainWavenumbers(n) == [i \in 1 .. n \div 2 + 1 |-> i - 1]

\* What _compute_control_sup may return: a real n_state x n_action matrix.
ControlSups(n, na) ==
    { [j \in 1 .. n |-> [a \in 1 .. na |->
          IF ((j - 1) * na) \div n = a - 1 THEN 1 ELSE 0]],
      [j \in 1 .. n |-> [a \in 1 .. na |-> ((j + 2 * a) % 4) - 1]] }

\* What _compute_C may return: a real n_observation x n_state matrix.
ObsMatrices(no, n) ==
    { [r \in 1 .. no |-> [j \in 1 .. n |-> IF (j - 1) % no = r - 1 THEN 1 ELSE 0]],
      [r \in 1 .. no |-> [j \in 1 .. n |-> r + j - 2]] }

\* PDE.get_params_asdict: the base parameters of the instance.
PDE_get_params_asdict(self) ==
    [id |-> self.id, n_state |-> self.n_state, n_action |-> self.n_action,
     n_observation |-> self.n_observation, domain_length |-> self.domain_length,
     target_state |-> self.target_state, seed |-> self.seed]

(***************************************************************************)
(* The instance before __init__ has run: no attribute is set.              *)
(***************************************************************************)
Unborn ==
    [pc |-> "unborn", args |-> None, id |-> "", n_state |-> 0, n_action |-> 0,
     n_observation |-> 0, domain_length |-> 0, seed |-> 0,
     target_state |-> None, domain_coordinates |-> None,
     domain_wavenumbers |-> None, init_state |-> None, state |-> None,
     diffusivity_constant |-> 0, control_sup |-> None, C |-> None,
     C_target_state |-> None, control_sup_calls |-> 0, C_calls |-> 0]

NoOut == [op |-> "none"]

Init ==
    /\ obj = [i \in Instances |-> Unborn]
    /\ np_random \in RandomStates
    /\ out = NoOut

\* One thread of control: a constructor runs from start to end before
\* anything else happens.
InConstructor(i) == obj[i].pc \notin {"unborn", "done"}
Idle == \A i \in Instances : ~InConstructor(i)

(***************************************************************************)
(* BurgersEnv.__init__, statement by statement.                            *)
(***************************************************************************)
\* PDE.__init__(self, id="burgers", ..., seed=seed); k is the wavenumber set
\* the base computes for the domain.
PDE_init(i, a, k) ==
    /\ Idle
    /\ obj[i].pc = "unborn"
    /\ obj' = [obj EXCEPT ![i] =
          [@ EXCEPT !.pc = "base", !.args = a, !.id = "burgers",
                    !.n_state = a.n_state, !.n_action = a.n_action,
                    !.n_observation = a.n_observation,
                    !.domain_length = a.domain_length, !.seed = a.seed,
                    !.target_state = IF a.target_state = None
                                     THEN Zeros(a.n_state) ELSE a.target_state,
                    !.domain_coordinates =
                        DomainCoordinates(a.n_state, a.domain_length),
                    !.domain_wavenumbers = k]]
    /\ np_random' = Seeded(a.seed)
    /\ UNCHANGED out

\* cosh(z), z and the result in units of 1/CoordScale (the Taylor series).
RECURSIVE CoshFrom(_, _, _)
CoshFrom(z, k, term) ==
    IF term = 0 \/ k > 30 THEN 0
    ELSE term + CoshFrom(z, k + 1,
             ((((term * z) \div (CoordScale * (2 * k - 1))) * z)
                 \div (CoordScale * (2 * k))))
cosh(z) == CoshFrom(IF z < 0 THEN 0 - z ELSE z, 1, CoordScale)

\* np.cosh(10 * (domain_coordinates - 1 * domain_length / 2)) ** (-1),
\* rounded to units of 1/Scale.
Pulse(self) ==
    [j \in 1 .. Len(self.domain_coordinates) |->
        LET z == 10 * (self.domain_coordinates[j]
                        - (1 * self.domain_length * CoordScale) \div 2)
            c == cosh(z)
        IN  (Scale * CoordScale + c \div 2) \div c]

\* A variant of RandomInit that forgets the shift: 2 * np.random.rand(n_state).
RandomInitUnshifted(x, n) == [j \in 1 .. n |-> 2 * rand(x, n)[j]]

\* 2 * np.random.rand(n_state) - 1, in units of 1/Scale.
RandomInit(x, n) == [j \in 1 .. n |-> 2 * rand(x, n)[j] - Scale]

\* A variant of InitExplicit in which the random reset is not confined to the
\* else branch and overwrites the supplied vector.
InitExplicitOverwritten(i) ==
    /\ obj[i].pc = "base"
    /\ obj[i].args.init_state # None
    /\ obj' = [obj EXCEPT ![i] =
          [@ EXCEPT !.pc = "init",
                    !.init_state = RandomInit(np_random, obj[i].args.n_state)]]
    /\ np_random' = AdvanceBy(np_random, obj[i].args.n_state)
    /\ UNCHANGED out

\* if init_state is not None: self.init_state = init_state
InitExplicit(i) ==
    /\ obj[i].pc = "base"
    /\ obj[i].args.init_state # None
    /\ obj' = [obj EXCEPT ![i] =
          [@ EXCEPT !.pc = "init", !.init_state = obj[i].args.init_state]]
    /\ UNCHANGED <<np_random, out>>

\* else: self.init_state = np.cosh(...) ** (-1)
InitPulse(i) ==
    /\ obj[i].pc = "base"
    /\ obj[i].args.init_state = None
    /\ obj' = [obj EXCEPT ![i] =
          [@ EXCEPT !.pc = "pulse", !.init_state = Pulse(obj[i])]]
    /\ UNCHANGED <<np_random, out>>

\* self.init_state = 2 * np.random.rand(n_state) - 1
InitRandom(i) ==
    /\ obj[i].pc = "pulse"
    /\ obj' = [obj EXCEPT ![i] =
          [@ EXCEPT !.pc = "init",
                    !.init_state = RandomInit(np_random, obj[i].args.n_state)]]
    /\ np_random' = AdvanceBy(np_random, obj[i].args.n_state)
    /\ UNCHANGED out

\* self.state = self.init_state
SetState(i) ==
    /\ obj[i].pc = "init"
    /\ obj' = [obj EXCEPT ![i] = [@ EXCEPT !.pc = "state", !.state = obj[i].init_state]]
    /\ UNCHANGED <<np_random, out>>

\* self.diffusivity_constant = diffusivity_constant
SetDiffusivity(i) ==
    /\ obj[i].pc = "state"
    /\ obj' = [obj EXCEPT ![i] =
          [@ EXCEPT !.pc = "diffusivity",
                    !.diffusivity_constant =
                        obj[i].args.diffusivity_constant]]
    /\ UNCHANGED <<np_random, out>>

\* self.control_sup = self._compute_control_sup()
ComputeControlSup(i) ==
    /\ obj[i].pc = "diffusivity"
    /\ \E m \in ControlSups(obj[i].n_state, obj[i].n_action) :
          obj' = [obj EXCEPT ![i] =
              [@ EXCEPT !.pc = "control_sup", !.control_sup = m,
                        !.control_sup_calls = @ + 1]]
    /\ UNCHANGED <<np_random, out>>

\* self.C = self._compute_C()
ComputeC(i) ==
    /\ obj[i].pc = "control_sup"
    /\ \E m \in ObsMatrices(obj[i].n_observation, obj[i].n_state) :
          obj' = [obj EXCEPT ![i] =
              [@ EXCEPT !.pc = "C", !.C = m, !.C_calls = @ + 1]]
    /\ UNCHANGED <<np_random, out>>

\* self.C_target_state = self.C @ self.target_state
ProjectTarget(i) ==
    /\ obj[i].pc = "C"
    /\ obj' = [obj EXCEPT ![i] =
          [@ EXCEPT !.pc = "done",
                    !.C_target_state =
                        MatVecInt(obj[i].C, obj[i].target_state)]]
    /\ UNCHANGED <<np_random, out>>

Construct(i) ==
    \/ InitExplicit(i)
    \/ InitPulse(i)
    \/ InitRandom(i)
    \/ SetState(i)
    \/ SetDiffusivity(i)
    \/ ComputeControlSup(i)
    \/ ComputeC(i)
    \/ ProjectTarget(i)

\* A variant of the linear operator that forgets the square.
compute_fourier_linear_op_unsquared(self) ==
    [i \in 1 .. Len(self.domain_wavenumbers) |->
        (0 - self.diffusivity_constant) * self.domain_wavenumbers[i]]

(***************************************************************************)
(* _compute_fourier_linear_op:                                             *)
(*     -self.diffusivity_constant * self.domain_wavenumbers**2             *)
(***************************************************************************)
compute_fourier_linear_op(self) ==
    [i \in 1 .. Len(self.domain_wavenumbers) |->
        (0 - self.diffusivity_constant)
            * (self.domain_wavenumbers[i] * self.domain_wavenumbers[i])]

(***************************************************************************)
(* _compute_fourier_nonlinear_op: the closure fourier_nonlinear_op.        *)
(***************************************************************************)
\* aa_factor = 3 / 2
aa_factor == FDiv(3, 2)

\* A variant of aa_points that rounds the grid size up.
aa_points_rounded_up(n) == (n * 3 + 1) \div 2

\* int(self.n_state * aa_factor)
aa_points(n) == (n * 3) \div 2

\* int(self.n_state / 2) + 1
retained(n) == n \div 2 + 1

\* aa_state = aa_factor * np.fft.irfft(state_fourier, n=int(n_state * aa_factor))
aa_state(self, state_fourier) ==
    LET y == irfft(state_fourier, aa_points(self.n_state))
    IN  [j \in 1 .. Len(y) |-> FMul(aa_factor, y[j])]

\* What numpy raises when the operands of an element-wise operation differ
\* in length.
ShapeError == <<>>

\* -0.5j * self.domain_wavenumbers * (1 / aa_factor)
\*     * np.fft.rfft(aa_state**2)[0 : int(self.n_state / 2) + 1]
advection_term(self, state_fourier) ==
    LET aa == aa_state(self, state_fourier)
        squared == [j \in 1 .. Len(aa) |-> FMul(aa[j], aa[j])]
        modes == Slice(rfft(squared), retained(self.n_state))
        k == self.domain_wavenumbers
    IN  IF Len(modes) # Len(k) THEN ShapeError
        ELSE [i \in 1 .. Len(k) |->
                CMul(CScale(FMul(F(k[i]), FDiv(1, aa_factor)),
                            Cx(0, FDiv(F(-1), 2))),
                     modes[i])]

\* A variant of forcing_term that is not linear in the action.
forcing_term_squared(self, action) ==
    MatVec(rfft_axis0(self.control_sup),
           [c \in 1 .. Len(action) |-> action[c] * action[c]])

\* np.fft.rfft(self.control_sup, axis=0) @ action
forcing_term(self, action) == MatVec(rfft_axis0(self.control_sup), action)

fourier_nonlinear_op(self, state_fourier, action) ==
    LET adv == advection_term(self, state_fourier)
        frc == forcing_term(self, action)
    IN  IF adv = ShapeError \/ Len(adv) # Len(frc) THEN ShapeError
        ELSE [i \in 1 .. Len(adv) |-> CAdd(adv[i], frc[i])]

(***************************************************************************)
(* get_params_asdict: {**pde_dict, **extra_data}                           *)
(***************************************************************************)
\* {**a, **b}: the keys of both, b's value where both have the key.
Merge(a, b) ==
    [key \in DOMAIN a \cup DOMAIN b |->
        IF key \in DOMAIN b THEN b[key] ELSE a[key]]

\* A variant of get_params_asdict that returns the base dictionary without
\* the extra data.
get_params_asdict_unmerged(self) == PDE_get_params_asdict(self)


get_params_asdict(self) ==
    LET pde_dict == PDE_get_params_asdict(self)
        extra_data == [diffusivity_constant |-> self.diffusivity_constant]
    IN  Merge(pde_dict, extra_data)

(***************************************************************************)
(* Operations on a constructed instance.                                   *)
(***************************************************************************)
VecAddInt(a, b) == [j \in 1 .. Len(a) |-> a[j] + b[j]]

LinearOp(i) ==
    /\ Idle
    /\ obj[i].pc = "done"
    /\ out' = [op |-> "linear", i |-> i,
               value |-> compute_fourier_linear_op(obj[i])]
    /\ UNCHANGED <<obj, np_random>>

\* A variant of NonlinearOp whose closure rebuilds the control support on
\* every call.
NonlinearOpRebuilding(i, s, a1, a2) ==
    /\ Idle
    /\ obj[i].pc = "done"
    /\ out' = [op |-> "nonlinear", i |-> i, s |-> s, a1 |-> a1, a2 |-> a2,
               aa |-> <<>>, f12 |-> <<>>, f1 |-> <<>>, f2 |-> <<>>, f0 |-> <<>>]
    /\ \E m \in ControlSups(obj[i].n_state, obj[i].n_action) :
          obj' = [obj EXCEPT ![i] =
              [@ EXCEPT !.control_sup = m, !.control_sup_calls = @ + 1]]
    /\ UNCHANGED np_random

\* The closure applied to one spectral state and to the actions a1 + a2, a1,
\* a2 and 0.
NonlinearOp(i, s, a1, a2) ==
    /\ Idle
    /\ obj[i].pc = "done"
    /\ out' = [op |-> "nonlinear", i |-> i, s |-> s, a1 |-> a1, a2 |-> a2,
               aa |-> aa_state(obj[i], s),
               f12 |-> fourier_nonlinear_op(obj[i], s, VecAddInt(a1, a2)),
               f1 |-> fourier_nonlinear_op(obj[i], s, a1),
               f2 |-> fourier_nonlinear_op(obj[i], s, a2),
               f0 |-> fourier_nonlinear_op(obj[i], s, Zeros(Len(a1)))]
    /\ UNCHANGED <<obj, np_random>>

GetParams(i) ==
    /\ Idle
    /\ obj[i].pc = "done"
    /\ out' = [op |-> "params", i |-> i, value |-> get_params_asdict(obj[i])]
    /\ UNCHANGED <<obj, np_random>>

\* env.C = m: the class defines no setter, the attribute is rebound and
\* nothing else changes.
AssignC(i, m) ==
    /\ Idle
    /\ obj[i].pc = "done"
    /\ obj' = [obj EXCEPT ![i] = [@ EXCEPT !.C = m]]
    /\ out' = [op |-> "assign", i |-> i]
    /\ UNCHANGED np_random

\* env.target_state = t
AssignTargetState(i, t) ==
    /\ Idle
    /\ obj[i].pc = "done"
    /\ obj' = [obj EXCEPT ![i] = [@ EXCEPT !.target_state = t]]
    /\ out' = [op |-> "assign", i |-> i]
    /\ UNCHANGED np_random

\* The base environment's integrator advances the state.
Step(i, v) ==
    /\ Idle
    /\ obj[i].pc = "done"
    /\ obj' = [obj EXCEPT ![i] = [@ EXCEPT !.state = v]]
    /\ out' = [op |-> "step", i |-> i]
    /\ UNCHANGED np_random

(***************************************************************************)
(* The inputs the specifications draw.                                     *)
(***************************************************************************)
ArgsOf(n, na, x0, t, d, seed) ==
    [n_state |-> n, n_action |-> na, n_observation |-> 2, domain_length |-> 1,
     target_state |-> t, init_state |-> x0, diffusivity_constant |-> d,
     seed |-> seed]

NStates == 1 .. MaxN

\* Explicit initial states in units of 1/Scale; the second lies outside [-1, 1].
InitStates(n) == {Ramp(n), Const(n, 2 * Scale)}
TargetStates(n) == {None, Const(n, 1)}

\* Half spectra of length n \div 2 + 1: every single mode p with three
\* amplitudes, and one state with two modes.
Amplitudes == {Cx(1, 0), Cx(0, 2), Cx(2, 1)}
SingleMode(n, p, X) == [k \in 1 .. n \div 2 + 1 |-> IF k = p + 1 THEN X ELSE CZero]
SpectralStates(n) ==
    {SingleMode(n, p, X) : p \in 0 .. n \div 2, X \in Amplitudes}
        \cup {[k \in 1 .. n \div 2 + 1 |-> Cx(k, k - 1)]}

ActionVectors(na) ==
    {Zeros(na), Const(na, 1), [a \in 1 .. na |-> a], [a \in 1 .. na |-> 1 - 2 * a]}

(***************************************************************************)
(* Spec: the life of one instance.                                         *)
(***************************************************************************)
MainArgs ==
    UNION { {ArgsOf(n, na, x0, t, d, seed) :
                na \in {2}, x0 \in {None} \cup InitStates(n), t \in TargetStates(n),
                d \in {1, 2}, seed \in {0}} : n \in NStates }

Next ==
    \/ \E a \in MainArgs : PDE_init(1, a, DomainWavenumbers(a.n_state))
    \/ Construct(1)
    \/ LinearOp(1)
    \/ NonlinearOp(1, SingleMode(obj[1].n_state, 0, Cx(1, 0)),
                   Const(obj[1].n_action, 1), Const(obj[1].n_action, 1))
    \/ GetParams(1)
    \/ \E m \in ObsMatrices(obj[1].n_observation, obj[1].n_state) : AssignC(1, m)
    \/ AssignTargetState(1, Const(obj[1].n_state, 1))
    \/ Step(1, Zeros(obj[1].n_state))

Spec == Init /\ [][Next]_vars

(***************************************************************************)
(* SpecTwo: two instances constructed one after the other.                 *)
(***************************************************************************)
TwoArgs ==
    UNION { {ArgsOf(n, 1, x0, None, 1, seed) :
                x0 \in {None, Ramp(n)}, seed \in {0, 1}} :
            n \in NStates }

NextTwo ==
    \/ \E i \in Instances, a \in TwoArgs :
          PDE_init(i, a, DomainWavenumbers(a.n_state))
    \/ \E i \in Instances : Construct(i)

SpecTwo == Init /\ [][NextTwo]_vars

(***************************************************************************)
(* SpecOp: the nonlinear operator of one instance, applied to every        *)
(* spectral state and every pair of actions of the bounded sets.  The      *)
(* closure reads the instance and writes nothing, so a second application  *)
(* would start from the same instance: one application per behaviour is    *)
(* explored.                                                               *)
(***************************************************************************)
OpArgs ==
    {ArgsOf(n, na, Ramp(n), None, 1, 0) : n \in NStates, na \in {1, 2}}
        \cup {ArgsOf(2, 1, None, None, 1, 0)}

NextOp ==
    \/ \E a \in OpArgs : PDE_init(1, a, DomainWavenumbers(a.n_state))
    \/ Construct(1)
    \/ /\ out = NoOut
       /\ \E s \in SpectralStates(obj[1].n_state),
             a1 \in ActionVectors(obj[1].n_action),
             a2 \in ActionVectors(obj[1].n_action) : NonlinearOp(1, s, a1, a2)

SpecOp == Init /\ [][NextOp]_vars

(***************************************************************************)
(* SpecLin: the linear operator for every wavenumber vector with entries   *)
(* in -2 .. 1 and the diffusivities 1 and 3.                               *)
(***************************************************************************)
LinArgs ==
    {ArgsOf(n, 1, Ramp(n), None, d, 0) : n \in NStates, d \in {1, 3}}
        \cup {ArgsOf(2, 1, None, None, 1, 0)}

KVectors(n) == [1 .. n \div 2 + 1 -> -2 .. 1]

NextLin ==
    \/ \E a \in LinArgs : \E k \in KVectors(a.n_state) : PDE_init(1, a, k)
    \/ Construct(1)
    \/ LinearOp(1)

SpecLin == Init /\ [][NextLin]_vars

(***************************************************************************)
(*                               CLAIMS                                    *)
(***************************************************************************)
Constructed(i) == obj[i].pc = "done"

\* Instance i has been constructed and nothing has been done to it since.
JustConstructed(i) == Constructed(i) /\ out = NoOut

(* C1: in every state of a constructed instance, also after an explicit    *)
(* update of C or of target_state, the cached C_target_state equals        *)
(* C @ target_state.                                                       *)
C1_ProjectedTargetIsCurrent ==
    Constructed(1) =>
        obj[1].C_target_state = MatVecInt(obj[1].C, obj[1].target_state)

(* C2: constructed with an explicit init_state, the instance's init_state  *)
(* and state both equal the supplied vector, element for element, whatever *)
(* the vector.                                                             *)
C2_ExplicitInitStateVerbatim ==
    (JustConstructed(1) /\ obj[1].args.init_state # None) =>
        /\ obj[1].init_state = obj[1].args.init_state
        /\ obj[1].state = obj[1].args.init_state

C2_Witness ==
    /\ JustConstructed(1)
    /\ obj[1].args.init_state # None
    /\ \E j \in DOMAIN obj[1].state : obj[1].state[j] # 0

(* C3: two instances constructed with the same arguments, init_state       *)
(* omitted and the same seed, have the same init_state, and every element  *)
(* of an init_state drawn at random lies in [-1, 1] (here: -Scale..Scale). *)
C3_SeededInitStateDeterministic ==
    /\ \A i \in Instances :
          (Constructed(i) /\ obj[i].args.init_state = None) =>
              \A j \in DOMAIN obj[i].init_state :
                  /\ 0 - Scale <= obj[i].init_state[j]
                  /\ obj[i].init_state[j] <= Scale
    /\ \A i, j \in Instances :
          ( /\ Constructed(i) /\ Constructed(j)
            /\ obj[i].args = obj[j].args
            /\ obj[i].args.init_state = None )
          => obj[i].init_state = obj[j].init_state

C3_Witness ==
    /\ Constructed(1) /\ Constructed(2)
    /\ obj[1].args = obj[2].args
    /\ obj[1].args.init_state = None
    /\ obj[1].n_state >= 3
    /\ \E j, k \in DOMAIN obj[1].init_state :
          obj[1].init_state[j] # obj[1].init_state[k]

(* C4: constructed without init_state, the instance's init_state and state *)
(* are the pulse cosh(10 * (domain_coordinates - domain_length / 2)) ** -1 *)
(* the class documentation gives as the default.                           *)
C4_DefaultInitStateIsPulse ==
    (JustConstructed(1) /\ obj[1].args.init_state = None) =>
        /\ obj[1].init_state = Pulse(obj[1])
        /\ obj[1].state = Pulse(obj[1])

(* C5: the linear operator has the length of the wavenumber vector k, its  *)
(* entry i is -d * k[i]^2 for the diffusivity d > 0, and every entry is    *)
(* non-positive.                                                           *)
C5_LinearOpIsMinusDKSquared ==
    out.op = "linear" =>
        LET k == obj[out.i].domain_wavenumbers
            d == obj[out.i].diffusivity_constant
        IN  /\ d > 0
            /\ Len(out.value) = Len(k)
            /\ \A i \in 1 .. Len(k) :
                  /\ out.value[i] + d * k[i] * k[i] = 0
                  /\ out.value[i] <= 0

C5_Witness ==
    /\ out.op = "linear"
    /\ Len(out.value) >= 3
    /\ \E i \in DOMAIN out.value : out.value[i] < 0
    /\ \E i \in DOMAIN out.value : obj[out.i].domain_wavenumbers[i] < 0
    /\ obj[out.i].diffusivity_constant > 1

(* C6: the exported dictionary has exactly the base dictionary's keys and  *)
(* "diffusivity_constant"; every base key keeps the base's value, and      *)
(* "diffusivity_constant" maps to the instance's diffusivity_constant,     *)
(* the constructor argument.                                               *)
C6_ParamsAreBasePlusDiffusivity ==
    out.op = "params" =>
        LET base == PDE_get_params_asdict(obj[out.i])
        IN  /\ DOMAIN out.value = DOMAIN base \cup {"diffusivity_constant"}
            /\ \A key \in DOMAIN base : out.value[key] = base[key]
            /\ out.value["diffusivity_constant"] = obj[out.i].diffusivity_constant
            /\ out.value["diffusivity_constant"]
                  = obj[out.i].args.diffusivity_constant

C6_Witness ==
    /\ out.op = "params"
    /\ obj[out.i].args.diffusivity_constant = 2
    /\ obj[out.i].target_state # obj[out.i].args.target_state

(* C7: for a fixed spectral state s and actions a1, a2,                    *)
(* f(s, a1 + a2) - f(s, a1) - (f(s, a2) - f(s, 0)) is zero, and f(s, 0)    *)
(* is the advection term alone, without any contribution of control_sup.   *)
C7_ForcingLinearInAction ==
    out.op = "nonlinear" =>
        /\ out.f0 # ShapeError
        /\ Len(out.f12) = Len(out.f0)
        /\ Len(out.f1) = Len(out.f0)
        /\ Len(out.f2) = Len(out.f0)
        /\ \A i \in 1 .. Len(out.f0) :
              CSub(CSub(out.f12[i], out.f1[i]), CSub(out.f2[i], out.f0[i])) = CZero
        /\ out.f0 = advection_term(obj[out.i], out.s)
        /\ out.f0 = fourier_nonlinear_op(
                        [obj[out.i] EXCEPT !.control_sup =
                            [j \in 1 .. Len(@) |-> Zeros(Len(@[j]))]],
                        out.s, Zeros(Len(out.a1)))

C7_Witness ==
    /\ out.op = "nonlinear"
    /\ out.a1 # out.a2
    /\ out.f1 # out.f0
    /\ out.f2 # out.f0
    /\ out.f12 # out.f1
    /\ \E i \in DOMAIN out.f0 : out.f0[i] # CZero

(* C8: for a spectral state that is a single low-frequency mode and the    *)
(* zero action, the operator returns -0.5j * k * FFT(u^2) on the retained  *)
(* modes, u the signal of the state on the n_state grid.  (A mode p with   *)
(* 4 * p < n_state is taken: the square of such a mode has no aliased      *)
(* contribution on the n_state grid either, so FFT(u^2) is the analytic    *)
(* spectrum of u^2.)                                                       *)
LowMode(n, s) ==
    \E p \in 0 .. n \div 2, X \in Amplitudes :
        /\ 4 * p < n
        /\ p = 0 => X.im = 0
        /\ s = SingleMode(n, p, X)

SpectralDerivativeOfSquare(self, s) ==
    LET u == irfft(s, self.n_state)
        squared == rfft([j \in 1 .. Len(u) |-> FMul(u[j], u[j])])
        k == self.domain_wavenumbers
    IN  [i \in 1 .. Len(k) |->
            CMul(CScale(F(k[i]), Cx(0, FDiv(F(-1), 2))), squared[i])]

\* C8: on a single low-frequency mode and the zero action the operator
\* returns -0.5j * k * FFT(u^2) on the retained modes.
C8_DealiasedAdvectionIsAnalytic ==
    (out.op = "nonlinear" /\ LowMode(obj[out.i].n_state, out.s)) =>
        out.f0 = SpectralDerivativeOfSquare(obj[out.i], out.s)

(* C9: for every n_state >= 1 the oversampled grid has int(n_state * 3/2)  *)
(* points and the result has n_state \div 2 + 1 entries, as many as the    *)
(* wavenumbers and as the control-forcing term; the truncation slice is    *)
(* never short.                                                            *)
C9_ShapesAgree ==
    out.op = "nonlinear" =>
        LET n == obj[out.i].n_state
            m == Len(out.aa)
        IN  /\ 2 * m <= 3 * n /\ 3 * n < 2 * m + 2
            /\ m \div 2 + 1 >= n \div 2 + 1
            /\ out.f0 # ShapeError /\ out.f12 # ShapeError
            /\ 2 * (Len(out.f0) - 1) <= n /\ n < 2 * Len(out.f0)
            /\ Len(out.f0) = Len(obj[out.i].domain_wavenumbers)
            /\ Len(out.f0) = Len(forcing_term(obj[out.i], out.a1))
            /\ Len(out.f12) = Len(out.f0)

C9_Witness ==
    /\ out.op = "nonlinear"
    /\ obj[out.i].n_state = 5
    /\ Len(out.aa) = 7
    /\ Len(out.f0) = 3

(* C10: the builders of control_sup and of C are each called exactly once, *)
(* during construction and after state has been set to init_state; the     *)
(* projected target is computed when C exists; and no later building or    *)
(* application of an operator and no parameter export changes control_sup  *)
(* or C, whatever the state is.                                            *)
C10_CalledOnce ==
    \A i \in Instances :
        /\ obj[i].control_sup_calls <= 1
        /\ obj[i].C_calls <= 1
        /\ Constructed(i) => (obj[i].control_sup_calls = 1 /\ obj[i].C_calls = 1)

C10_Step ==
    \A i \in Instances :
        /\ (obj'[i].control_sup_calls # obj[i].control_sup_calls
               \/ obj'[i].C_calls # obj[i].C_calls) =>
              /\ obj[i].state # None
              /\ obj[i].state = obj[i].init_state
              /\ ~Constructed(i)
        /\ obj'[i].C_target_state # obj[i].C_target_state =>
              /\ obj[i].C # None
              /\ obj[i].C_calls = 1
        /\ (Constructed(i) /\ out'.op \in {"linear", "nonlinear", "params"}) =>
              /\ obj'[i].control_sup = obj[i].control_sup
              /\ obj'[i].C = obj[i].C
              /\ obj'[i].control_sup_calls = obj[i].control_sup_calls
              /\ obj'[i].C_calls = obj[i].C_calls

\* C10: the builders run exactly once, after the state was initialised, and
\* no operator or export touches control_sup or C afterwards.
C10_BuildersRunOnceAfterStateInit == [](C10_CalledOnce) /\ [][C10_Step]_vars

C10_Witness ==
    /\ Constructed(1)
    /\ out.op = "nonlinear"
    /\ obj[1].state # obj[1].init_state
    /\ obj[1].control_sup_calls = 1
    /\ obj[1].C_calls = 1

=============================================================================
